---------------------------- MODULE Spec2Model ----------------------------
(***************************************************************************)
(* Model of the rlox scanner: the character cursor (CharStream), the       *)
(* Scanner state machine (Scanner::scan / next_token and its sub-scans)    *)
(* and ErrorHandler::report_error with the message it renders.             *)
(*                                                                         *)
(* The source text is a sequence of one-character strings.  Rust's byte    *)
(* positions are 0-based, TLA+ sequences are 1-based: the character at     *)
(* byte position p is text[p + 1].  Input is ASCII (main.rs rejects        *)
(* anything else), so one character is one byte.                           *)
(***************************************************************************)
EXTENDS Integers, Sequences, FiniteSets, TLC

VARIABLES
    text,         \* the input handed to scan (CharStream.text, ErrorHandler.code)
    position,     \* CharStream.position
    token_start,  \* Scanner.token_start
    had_error,    \* Scanner.had_error
    result,       \* the local Vec<Token> `result` of Scanner::scan
    reported,     \* the diagnostics handed to ErrorHandler::report_error by
                  \* the current pass, in order
    log,          \* every message report_error has rendered and logged
    eh_had_error, \* ErrorHandler.had_error
    second,       \* Scanner::scan has been called a second time
    first,        \* what the first call of scan built, returned and reported
    returned,     \* what scan hands back to its caller
    branch,       \* the arm of next_token's match taken by the last iteration
    reverts,      \* the calls of CharStream::revert made by the current pass
    fault,        \* the panic that aborted the pass, "none" if there was none
    pc            \* "new", "scanning", "ok", "err", "critical", "panicked"

vars == <<text, position, token_start, had_error, result, reported, log,
          eh_had_error, second, first, returned, branch, reverts, fault,
          pc>>

---------------------------------------------------------------------------
(* Bounds of the model.                                                    *)

\* longest input over the full alphabet
MaxLen == 3
\* longest input over the core alphabet
MaxCoreLen == 5

\* longest digit run of the long number literals
MaxDigits == 19

Alphabet == {".", "*", "/", "!", "=", ">", "<", "\n", "\"", "1", "o", "r", "O", "$"}
CoreAlphabet == {"/", "*", "\n", "\"", "1", "."}

SeqsUpTo(S, n) == UNION {[1..k -> S] : k \in 0..n}

\* the digit runs around the length of i64::MAX, alone and followed by a
\* newline, a '.' or a fraction (a literal of more digits than an f64 keeps)
NumberTexts ==
    {[i \in 1..n |-> d] \o t :
        n \in (MaxDigits - 1)..MaxDigits, d \in {"1", "9"},
        t \in {<<>>, <<"\n">>, <<".">>, <<".", "1">>, <<".", "9">>}}

Texts ==
    SeqsUpTo(Alphabet, MaxLen) \cup SeqsUpTo(CoreAlphabet, MaxCoreLen)
        \cup NumberTexts

---------------------------------------------------------------------------
(* Character classes and tables.                                           *)

\* Option::None of a cursor read
None == "None"
\* a slice whose start lies beyond the end of the text: the read panics
OutOfBounds == "OutOfBounds"

DigitChars == <<"0", "1", "2", "3", "4", "5", "6", "7", "8", "9">>

is_digit(c) == \E i \in 1..10 : DigitChars[i] = c

DigitValue(c) == (CHOOSE i \in 1..10 : DigitChars[i] = c) - 1

LowerCase == {"a", "b", "c", "d", "e", "f", "g", "h", "i", "j", "k", "l", "m",
              "n", "o", "p", "q", "r", "s", "t", "u", "v", "w", "x", "y", "z"}
UpperCase == {"A", "B", "C", "D", "E", "F", "G", "H", "I", "J", "K", "L", "M",
              "N", "O", "P", "Q", "R", "S", "T", "U", "V", "W", "X", "Y", "Z"}

is_valid_id_start(c) == c \in LowerCase \cup UpperCase \cup {"_"}

\* mutant: digits are not accepted inside an identifier
is_valid_id_char_no_digit(c) == is_valid_id_start(c)

is_valid_id_char(c) == is_valid_id_start(c) \/ is_digit(c)

Whitespace == {" ", "\r", "\t", "\n"}

SingleCharTokens ==
    { [char |-> "(", type |-> "LeftParenthesis"],
      [char |-> ")", type |-> "RightParenthesis"],
      [char |-> "{", type |-> "LeftBrace"],
      [char |-> "}", type |-> "RightBrace"],
      [char |-> ":", type |-> "Colon"],
      [char |-> ",", type |-> "Comma"],
      [char |-> ".", type |-> "Dot"],
      [char |-> "-", type |-> "Minus"],
      [char |-> "+", type |-> "Plus"],
      [char |-> ";", type |-> "Semicolon"],
      [char |-> "*", type |-> "Star"] }

\* the four arms that try to extend with '='
OperatorTokens ==
    { [char |-> "!", one |-> "Bang",    two |-> "BangEqual"],
      [char |-> "=", one |-> "Equal",   two |-> "EqualEqual"],
      [char |-> ">", one |-> "Greater", two |-> "GreaterEqual"],
      [char |-> "<", one |-> "Less",    two |-> "LessEqual"] }

\* mutant: "val" is mapped to Var, the kind of "var"
KEYWORDS_val_as_var ==
    { [text |-> <<"a", "n", "d">>, type |-> "And"],
      [text |-> <<"b", "o", "o", "l">>, type |-> "Bool"],
      [text |-> <<"c", "l", "a", "s", "s">>, type |-> "Class"],
      [text |-> <<"e", "l", "s", "e">>, type |-> "Else"],
      [text |-> <<"f", "a", "l", "s", "e">>, type |-> "False"],
      [text |-> <<"f", "l", "o", "a", "t">>, type |-> "Float"],
      [text |-> <<"f", "u", "n">>, type |-> "Fun"],
      [text |-> <<"f", "o", "r">>, type |-> "For"],
      [text |-> <<"i", "f">>, type |-> "If"],
      [text |-> <<"i", "n", "t">>, type |-> "Int"],
      [text |-> <<"n", "i", "l">>, type |-> "Nil"],
      [text |-> <<"o", "r">>, type |-> "Or"],
      [text |-> <<"p", "r", "i", "n", "t">>, type |-> "Print"],
      [text |-> <<"r", "e", "t", "u", "r", "n">>, type |-> "Return"],
      [text |-> <<"s", "t", "r", "i", "n", "g">>, type |-> "String"],
      [text |-> <<"s", "u", "p", "e", "r">>, type |-> "Super"],
      [text |-> <<"t", "h", "i", "s">>, type |-> "This"],
      [text |-> <<"t", "r", "u", "e">>, type |-> "True"],
      [text |-> <<"v", "a", "l">>, type |-> "Var"],
      [text |-> <<"v", "a", "r">>, type |-> "Var"],
      [text |-> <<"w", "h", "i", "l", "e">>, type |-> "While"] }

KEYWORDS ==
    { [text |-> <<"a", "n", "d">>, type |-> "And"],
      [text |-> <<"b", "o", "o", "l">>, type |-> "Bool"],
      [text |-> <<"c", "l", "a", "s", "s">>, type |-> "Class"],
      [text |-> <<"e", "l", "s", "e">>, type |-> "Else"],
      [text |-> <<"f", "a", "l", "s", "e">>, type |-> "False"],
      [text |-> <<"f", "l", "o", "a", "t">>, type |-> "Float"],
      [text |-> <<"f", "u", "n">>, type |-> "Fun"],
      [text |-> <<"f", "o", "r">>, type |-> "For"],
      [text |-> <<"i", "f">>, type |-> "If"],
      [text |-> <<"i", "n", "t">>, type |-> "Int"],
      [text |-> <<"n", "i", "l">>, type |-> "Nil"],
      [text |-> <<"o", "r">>, type |-> "Or"],
      [text |-> <<"p", "r", "i", "n", "t">>, type |-> "Print"],
      [text |-> <<"r", "e", "t", "u", "r", "n">>, type |-> "Return"],
      [text |-> <<"s", "t", "r", "i", "n", "g">>, type |-> "String"],
      [text |-> <<"s", "u", "p", "e", "r">>, type |-> "Super"],
      [text |-> <<"t", "h", "i", "s">>, type |-> "This"],
      [text |-> <<"t", "r", "u", "e">>, type |-> "True"],
      [text |-> <<"v", "a", "l">>, type |-> "Val"],
      [text |-> <<"v", "a", "r">>, type |-> "Var"],
      [text |-> <<"w", "h", "i", "l", "e">>, type |-> "While"] }

---------------------------------------------------------------------------
(* CharStream: the cursor operations, as functions of the position.        *)

\* text[position..].chars().next(); the guard makes a position beyond the
\* end yield None instead of slicing out of bounds
current_char(pos) ==
    IF pos > Len(text) THEN None
    ELSE IF pos = Len(text) THEN None
    ELSE text[pos + 1]

\* text[position + n..].chars().next(): no guard, the slice panics when
\* position + n is beyond the length of the text
peek_n(pos, n) ==
    IF pos + n > Len(text) THEN OutOfBounds
    ELSE IF pos + n = Len(text) THEN None
    ELSE text[pos + n + 1]

peek(pos) == peek_n(pos, 1)

\* mutant: the cursor counts as exhausted only beyond the end
is_exhausted_beyond(pos) == pos > Len(text)

is_exhausted(pos) == pos >= Len(text)

\* the position after next(); the character it returns is current_char(pos)
next_position(pos) == pos + 1

\* mutant: revert goes back two characters
revert_position_twice(pos) == pos - 2

\* mutant: revert leaves the position where it is
revert_position_missing(pos) == pos

\* the position after revert()
revert_position(pos) == pos - 1

\* mutant: the current character is consumed whatever it is
matches_any(pos, expected) ==
    IF current_char(pos) # None
    THEN [matched |-> TRUE, position |-> pos + 1]
    ELSE [matched |-> FALSE, position |-> pos]

\* matches(expected): [matched, position]
matches(pos, expected) ==
    IF current_char(pos) # None
    THEN IF current_char(pos) # expected
         THEN [matched |-> FALSE, position |-> pos]
         ELSE [matched |-> TRUE, position |-> pos + 1]
    ELSE [matched |-> FALSE, position |-> pos]


---------------------------------------------------------------------------
(* Tokens, diagnostics and the result of one next_token call.              *)

\* Token::new(token_type, LineInformation::new(offset, length)).  The payload
\* of Identifier and StringValue is `chars`; the payload of IntegerValue is
\* `int`, of FloatValue `int` and `frac` (the decimal digits of the i64, and
\* of the integer part and the fraction of the f64).
Token(type, chars, int, frac, offset, length) ==
    [type |-> type, chars |-> chars, int |-> int, frac |-> frac,
     offset |-> offset, length |-> length]

\* mutant: the span stops one character short of the cursor
get_line_information_short(ts, pos) ==
    [offset |-> ts, length |-> pos - ts - 1]

\* LineInformation::new(token_start, position - token_start)
get_line_information(ts, pos) == [offset |-> ts, length |-> pos - ts]

\* report_error panics when its assertion fails (code.len() >= offset +
\* length) and when get_error_message slices code[..=offset] with
\* offset >= code.len()
report_error_panics(li) ==
    \/ Len(text) < li.offset + li.length
    \/ li.offset >= Len(text)

\* the count of '\n' in code[..=offset], plus one
line_number(offset) ==
    Cardinality({i \in 1..(offset + 1) : text[i] = "\n"}) + 1

\* u32::checked_ilog10(n).unwrap_or(0)
RECURSIVE ilog10(_)
ilog10(n) == IF n < 10 THEN 0 ELSE 1 + ilog10(n \div 10)

\* mutant: the gutter is three wide whatever the line number
indentation_fixed(line) == 3

indentation(line) == ilog10(line) + 3

\* the first loop of get_line_content_and_column_offset: idx runs over the
\* characters until idx == offset, left follows the newlines passed
RECURSIVE left_boundary(_, _, _)
left_boundary(idx, offset, left) ==
    IF idx >= Len(text) \/ idx = offset THEN left
    ELSE left_boundary(idx + 1, offset,
                       IF text[idx + 1] = "\n" THEN idx + 1 ELSE left)

\* its second loop: the first newline at or after offset, else code.len()
RECURSIVE right_boundary(_)
right_boundary(idx) ==
    IF idx >= Len(text) THEN Len(text)
    ELSE IF text[idx + 1] = "\n" THEN idx
    ELSE right_boundary(idx + 1)

\* (code[left..right], offset - left, right)
get_line_content_and_column_offset(offset) ==
    LET left == left_boundary(0, offset, 0)
        right == right_boundary(offset)
    IN  [code_line |-> SubSeq(text, left + 1, right),
         column_offset |-> offset - left,
         column_end |-> right]

\* mutant: the marker is not cut at the end of the line
max_marker_length_uncut(li) == li.length

\* min(length, column_end - offset)
max_marker_length(li) ==
    LET column_end == get_line_content_and_column_offset(li.offset).column_end
    IN  IF li.length <= column_end - li.offset THEN li.length
        ELSE column_end - li.offset

\* format!("{}", line): the decimal digits of a positive number
RECURSIVE Decimal(_)
Decimal(n) ==
    IF n < 10 THEN <<DigitChars[n + 1]>>
    ELSE Append(Decimal(n \div 10), DigitChars[(n % 10) + 1])

\* " ".repeat(n), "^".repeat(n)
Repeat(c, n) == [i \in 1..n |-> c]

ContinuationNotice == "--> Error continues in next line."

\* the message get_error_message builds, as its lines (each ends with '\n');
\* a line is a sequence of characters, the message text and the notice are
\* kept whole
get_error_message(error_msg, li) ==
    LET line == line_number(li.offset)
        ind == indentation(line)
        lc == get_line_content_and_column_offset(li.offset)
        marker == max_marker_length(li)
    IN  << error_msg,
           Repeat(" ", ind) \o <<"|">>,
           <<" ">> \o Decimal(line) \o <<" ", "|", " ">> \o lc.code_line,
           Repeat(" ", ind) \o <<"|", " ">> \o Repeat(" ", lc.column_offset)
               \o Repeat("^", marker) >>
        \o (IF marker < li.length
            THEN <<Repeat(" ", ind) \o <<"|", " ", ContinuationNotice>>>>
            ELSE <<>>)

\* mutant: reporting records that an error was seen
report_error_sets_flag(he) == TRUE

\* ErrorHandler.had_error after report_error(&self, ..): untouched
report_error_had_error(he) == he

\* Ok(None): no token, no diagnostic
no_token(pos) ==
    [position |-> pos, token |-> <<>>, diag |-> <<>>, fault |-> "none",
     critical |-> FALSE, revert |-> <<>>]

\* a panic raised while the cursor is at pos
panic(pos, what) ==
    [position |-> pos, token |-> <<>>, diag |-> <<>>, fault |-> what,
     critical |-> FALSE, revert |-> <<>>]

\* Ok(Some(Token::new(token_type, self.get_line_information())))
create_token(type, chars, int, frac, ts, pos) ==
    LET li == get_line_information(ts, pos)
    IN  [position |-> pos,
         token |-> <<Token(type, chars, int, frac, li.offset, li.length)>>,
         diag |-> <<>>, fault |-> "none", critical |-> FALSE,
         revert |-> <<>>]

\* report_error(error_msg, get_line_information()); had_error = true.
\* The message is its fixed part `message` and its formatted part `arg`.
process_error(message, arg, ts, pos) ==
    LET li == get_line_information(ts, pos)
    IN  IF report_error_panics(li)
        THEN panic(pos, "report_error")
        ELSE [position |-> pos, token |-> <<>>,
              diag |-> <<[message |-> message, arg |-> arg,
                          offset |-> li.offset, length |-> li.length]>>,
              fault |-> "none", critical |-> FALSE, revert |-> <<>>]

\* the outcome `out` of a sub-scan that called revert() at position `from`,
\* directly after a next() that returned `ret`
reverted(out, ret, from) ==
    [out EXCEPT !.revert = <<[after_next |-> ret, from |-> from,
                             to |-> revert_position(from)]>>]

\* the messages report_error logs for the diagnostics of one next_token call
rendered(diag) ==
    [i \in 1..Len(diag) |->
        get_error_message(<<diag[i].message>> \o diag[i].arg,
                          [offset |-> diag[i].offset, length |-> diag[i].length])]

\* ErrorHandler.had_error after the report_error calls of one next_token call
RECURSIVE had_error_after(_, _)
had_error_after(he, n) ==
    IF n = 0 THEN he ELSE had_error_after(report_error_had_error(he), n - 1)

---------------------------------------------------------------------------
(* The sub-scans of Scanner.  ts is token_start, pos the cursor position.  *)

\* while let Some(c) = next() { if c == '\n' { break } }: the position after
\* the loop.  The next() that returns None has advanced the position too.
RECURSIVE process_comment(_)
process_comment(pos) ==
    LET c == current_char(pos)
    IN  IF c = None THEN next_position(pos)
        ELSE IF c = "\n" THEN next_position(pos)
        ELSE process_comment(next_position(pos))

\* mutant: the end of the buffer is reported without the revert
RECURSIVE process_multiline_comment_no_revert(_, _)
process_multiline_comment_no_revert(ts, pos) ==
    LET c1 == current_char(pos)
        p1 == next_position(pos)
    IN  IF c1 = None
        THEN process_error("Unterminated multiline comment.", <<>>, ts, p1)
        ELSE IF c1 # "*" THEN process_multiline_comment_no_revert(ts, p1)
        ELSE IF current_char(p1) = "/" THEN no_token(next_position(p1))
        ELSE process_multiline_comment_no_revert(ts, p1)

RECURSIVE process_multiline_comment(_, _)
process_multiline_comment(ts, pos) ==
    LET c1 == current_char(pos)
        p1 == next_position(pos)
    IN  IF c1 = None
        THEN reverted(process_error("Unterminated multiline comment.", <<>>,
                                    ts, revert_position(p1)), c1, p1)
        ELSE IF c1 # "*" THEN process_multiline_comment(ts, p1)
        ELSE IF current_char(p1) = "/" THEN no_token(next_position(p1))
        ELSE process_multiline_comment(ts, p1)

\* mutant: the end of the buffer is reported without the revert
RECURSIVE process_string_no_revert(_, _, _)
process_string_no_revert(ts, pos, s) ==
    LET r == current_char(pos)
        p1 == next_position(pos)
    IN  IF r = None
        THEN process_error("Unterminated string.", <<>>, ts, p1)
        ELSE IF r = "\""
        THEN create_token("StringValue", s, <<>>, <<>>, ts, p1)
        ELSE process_string_no_revert(ts, p1, Append(s, r))

RECURSIVE process_string(_, _, _)
process_string(ts, pos, s) ==
    LET r == current_char(pos)
        p1 == next_position(pos)
    IN  IF r = None
        THEN reverted(process_error("Unterminated string.", <<>>, ts,
                                    revert_position(p1)), r, p1)
        ELSE IF r = "\""
        THEN create_token("StringValue", s, <<>>, <<>>, ts, p1)
        ELSE process_string(ts, p1, Append(s, r))

\* while let Some(c) = current_char() { if !digit { break }; number.push(c);
\* next(); }: the loop of process_number, run for the integer part and
\* again for the fraction
RECURSIVE consume_digits(_, _)
consume_digits(pos, number) ==
    LET c == current_char(pos)
    IN  IF c = None THEN [position |-> pos, number |-> number]
        ELSE IF ~is_digit(c) THEN [position |-> pos, number |-> number]
        ELSE consume_digits(next_position(pos), Append(number, c))

\* r1 = current_char(), r2 = peek(): both are read before the match, so the
\* out-of-bounds slice of peek panics whatever r1 is
number_is_float(pos) ==
    LET r1 == current_char(pos)
        r2 == peek(pos)
    IN  IF r2 = OutOfBounds
        THEN [fault |-> TRUE, value |-> FALSE]
        ELSE [fault |-> FALSE,
              value |-> r1 # None /\ r2 # None /\ r1 = "." /\ is_digit(r2)]

\* a digit sequence without its leading zeros; a digit is always kept
StripLeadingZeros(ds) ==
    LET nz == {i \in 1..Len(ds) : ds[i] # 0}
    IN  IF ds = <<>> THEN <<>>
        ELSE IF nz = {} THEN <<0>>
        ELSE SubSeq(ds, CHOOSE i \in nz : \A j \in nz : i <= j, Len(ds))

\* a digit sequence without its trailing zeros
StripTrailingZeros(ds) ==
    LET back == {Len(ds) + 1 - i : i \in {k \in 1..Len(ds) : ds[k] # 0}}
    IN  IF back = {} THEN <<>>
        ELSE SubSeq(ds, 1,
                    Len(ds) + 1 - (CHOOSE i \in back : \A j \in back : i <= j))

DigitValues(cs) == [i \in 1..Len(cs) |-> DigitValue(cs[i])]

\* i64::MAX = 9223372036854775807, digit by digit
I64MaxDigits == <<9, 2, 2, 3, 3, 7, 2, 0, 3, 6, 8, 5, 4, 7, 7, 5, 8, 0, 7>>

\* a <= b for two digit sequences of the same length
DigitsLeq(a, b) ==
    \/ a = b
    \/ \E i \in 1..Len(a) : a[i] < b[i] /\ \A j \in 1..(i - 1) : a[j] = b[j]

\* number.parse::<i64>() of a digit run: the value as its decimal digits
\* without leading zeros; Err when it exceeds i64::MAX
parse_i64(number) ==
    LET ds == StripLeadingZeros(DigitValues(number))
    IN  [ok |-> \/ Len(ds) < Len(I64MaxDigits)
                \/ Len(ds) = Len(I64MaxDigits) /\ DigitsLeq(ds, I64MaxDigits),
         value |-> ds]

parse_int(ts, pos, number) ==
    LET n == parse_i64(number)
    IN  IF n.ok
        THEN create_token("IntegerValue", <<>>, n.value, <<>>, ts, pos)
        ELSE process_error("Cannot parse integer", number, ts, pos)

\* the decimal digits of a natural number, none for 0
RECURSIVE DigitsOf(_)
DigitsOf(n) == IF n = 0 THEN <<>> ELSE Append(DigitsOf(n \div 10), n % 10)

\* b to the power c
RECURSIVE Power(_, _)
Power(b, c) == IF c = 0 THEN 1 ELSE b * Power(b, c - 1)

\* The operators below bind an intermediate number with CHOOSE r \in {..}
\* before they go on, so that it is computed once, and split their work in
\* halves, so that the recursion stays shallow on long literals.

\* the value of a sequence of up to four digits
SmallValue(ds) ==
    IF Len(ds) = 0 THEN 0
    ELSE IF Len(ds) = 1 THEN ds[1]
    ELSE IF Len(ds) = 2 THEN ds[1] * 10 + ds[2]
    ELSE IF Len(ds) = 3 THEN ds[1] * 100 + ds[2] * 10 + ds[3]
    ELSE ds[1] * 1000 + ds[2] * 100 + ds[3] * 10 + ds[4]

\* the lowest n decimal digits of t
LowDigits(t, n) == [i \in 1..n |-> (t \div Power(10, n - i)) % 10]

\* the digit sequence ds times k, plus carry: its Len(ds) low digits and the
\* carry out of them.  With k and carry up to 2^17 every intermediate value
\* fits the integers of the checker.
RECURSIVE TimesSmall(_, _, _)
TimesSmall(ds, k, carry) ==
    LET n == Len(ds)
        half == n \div 2
    IN  IF n <= 4
        THEN CHOOSE r \in
                 {[digits |-> LowDigits(t, n), carry |-> t \div Power(10, n)] :
                     t \in {SmallValue(ds) * k + carry}} : TRUE
        ELSE CHOOSE r \in
                 {CHOOSE q \in
                      {[digits |-> high.digits \o low.digits,
                        carry |-> high.carry] :
                          high \in {TimesSmall(SubSeq(ds, 1, half), k,
                                               low.carry)}} : TRUE :
                     low \in {TimesSmall(SubSeq(ds, half + 1, n), k, carry)}} :
                 TRUE

\* A decimal number is [int, frac]: the digits of its integer part without
\* leading zeros (at least one digit) and of its fraction without trailing
\* zeros.  x times the natural number k, exactly.
Times(x, k) ==
    CHOOSE r \in
        {[int |-> StripLeadingZeros(
                      DigitsOf(p.carry) \o SubSeq(p.digits, 1, Len(x.int))),
          frac |-> StripTrailingZeros(
                       SubSeq(p.digits, Len(x.int) + 1, Len(p.digits)))] :
            p \in {TimesSmall(x.int \o x.frac, k, 0)}} :
        TRUE

\* x divided by 10^c, exactly: the decimal point moves c places
ShiftRight(x, c) ==
    CHOOSE r \in
        {[int |-> StripLeadingZeros(SubSeq(ds, 1, Len(x.int))),
          frac |-> StripTrailingZeros(
                       SubSeq(ds, Len(x.int) + 1, Len(ds)) \o x.frac)] :
            ds \in {[i \in 1..c |-> 0] \o x.int}} :
        TRUE

\* x times 2^c and x divided by 2^c (which is x times 5^c divided by 10^c),
\* exactly, for c up to 17 and 7
TimesTwoToSmall(x, c) == Times(x, Power(2, c))
DividedByTwoToSmall(x, c) ==
    CHOOSE r \in {ShiftRight(y, c) : y \in {Times(x, Power(5, c))}} : TRUE

\* x * 2^e as a decimal number, exactly, for any integer e
RECURSIVE TimesTwoTo(_, _)
TimesTwoTo(x, e) ==
    IF e = 0 \/ (x.int = <<0>> /\ x.frac = <<>>) THEN x
    ELSE IF e > 0 /\ e <= 17 THEN TimesTwoToSmall(x, e)
    ELSE IF e < 0 /\ 0 - e <= 7 THEN DividedByTwoToSmall(x, 0 - e)
    ELSE CHOOSE r \in
             {TimesTwoTo(y, e - e \div 2) : y \in {TimesTwoTo(x, e \div 2)}} :
             TRUE

\* a < b for two digit sequences without leading zeros
DigitsLess(a, b) ==
    \/ Len(a) < Len(b)
    \/ Len(a) = Len(b) /\ a # b /\ DigitsLeq(a, b)

\* 2^52 and 2^53: the 53-bit significand of an f64 lies in [2^52, 2^53)
TwoTo52Digits == <<4, 5, 0, 3, 5, 9, 9, 6, 2, 7, 3, 7, 0, 4, 9, 6>>
TwoTo53Digits == <<9, 0, 0, 7, 1, 9, 9, 2, 5, 4, 7, 4, 0, 9, 9, 2>>
\* the exponents of the smallest subnormal and of the largest finite f64,
\* for an integer significand
F64MinExp == 0 - 1074
F64MaxExp == 971
\* the decimal digits of the integer part of f64::MAX
F64MaxIntDigits == 309
\* a number below 10^-324 is less than half the smallest subnormal f64
F64MinFracZeros == 324

\* the zeros at the head of a digit sequence
LeadingZeros(ds) ==
    LET nz == {i \in 1..Len(ds) : ds[i] # 0}
    IN  IF nz = {} THEN Len(ds)
        ELSE (CHOOSE i \in nz : \A j \in nz : i <= j) - 1

\* x = y * 2^e with y in [2^52, 2^53), or with e = F64MinExp and y below
\* 2^52 (subnormal): [x |-> y, e |-> e].  The steps are exact.  A step of
\* several binary places is taken where the place of the first digit shows
\* that it cannot pass the interval: 10^16 < x with n digits before the
\* point has 10^16 < x / 8^(n - 17), and x < 10^n has x * 8^(15 - n) < 10^15.
RECURSIVE Scaled(_, _)
Scaled(x, e) ==
    LET n == IF x.int = <<0>> THEN 0 - LeadingZeros(x.frac) ELSE Len(x.int)
        room == e - F64MinExp
        down == IF n >= 18 THEN 3 * (n - 17) ELSE 1
        far == IF n <= 14 THEN 3 * (15 - n) ELSE 1
        up == IF far <= room THEN far ELSE room
    IN  IF ~DigitsLess(x.int, TwoTo53Digits)
        THEN CHOOSE r \in
                 {Scaled(y.x, y.e) :
                     y \in {[x |-> TimesTwoTo(x, 0 - down), e |-> e + down]}} :
                 TRUE
        ELSE IF DigitsLess(x.int, TwoTo52Digits) /\ room > 0
        THEN CHOOSE r \in
                 {Scaled(y.x, y.e) :
                     y \in {[x |-> TimesTwoTo(x, up), e |-> e - up]}} : TRUE
        ELSE [x |-> x, e |-> e]

\* a digit sequence plus one
PlusOne(ds) ==
    LET low == {i \in 1..Len(ds) : ds[i] < 9}
    IN  IF low = {} THEN <<1>> \o [i \in 1..Len(ds) |-> 0]
        ELSE LET at == CHOOSE i \in low : \A j \in low : j <= i
             IN  [i \in 1..Len(ds) |->
                     IF i < at THEN ds[i] ELSE IF i = at THEN ds[i] + 1 ELSE 0]

\* x rounded to an integer, ties to the even one
RoundHalfEven(x) ==
    LET up == /\ x.frac # <<>>
              /\ \/ x.frac[1] > 5
                 \/ x.frac[1] = 5 /\ Len(x.frac) > 1
                 \/ x.frac = <<5>> /\ x.int[Len(x.int)] % 2 = 1
    IN  IF up THEN PlusOne(x.int) ELSE x.int

\* f64::INFINITY, as the value of a token: no digits at all
F64Infinity == [int |-> <<>>, frac |-> <<>>]

\* the f64 of significand m and exponent e as a decimal number; infinity
\* beyond f64::MAX
F64Value(m, e) ==
    IF e > F64MaxExp \/ (e = F64MaxExp /\ m = TwoTo53Digits)
    THEN F64Infinity
    ELSE TimesTwoTo([int |-> m, frac |-> <<>>], e)

\* number.parse::<f64>() of the decimal number x: the f64 nearest to it
\* (ties to even, infinity beyond f64::MAX), as its exact decimal expansion
parse_f64(x) ==
    IF x.int = <<0>> /\ x.frac = <<>> THEN x
    ELSE IF Len(x.int) > F64MaxIntDigits THEN F64Infinity
    ELSE IF x.int = <<0>> /\ LeadingZeros(x.frac) >= F64MinFracZeros
    THEN [int |-> <<0>>, frac |-> <<>>]
    ELSE CHOOSE r \in
             {F64Value(RoundHalfEven(s.x), s.e) : s \in {Scaled(x, 0)}} : TRUE

\* number.parse::<f64>() of digits '.' digits never fails; the token holds
\* the f64 it yields
parse_float(ts, pos, number) ==
    LET dot == CHOOSE i \in 1..Len(number) : number[i] = "."
        int == StripLeadingZeros(DigitValues(SubSeq(number, 1, dot - 1)))
        frac == StripTrailingZeros(
                    DigitValues(SubSeq(number, dot + 1, Len(number))))
    IN  CHOOSE r \in
            {create_token("FloatValue", <<>>, value.int, value.frac, ts, pos) :
                value \in {parse_f64([int |-> int, frac |-> frac])}} : TRUE

process_number(ts, pos, start) ==
    LET d1 == consume_digits(pos, <<start>>)
        is_float == number_is_float(d1.position)
    IN  IF is_float.fault THEN panic(d1.position, "peek_n")
        ELSE IF is_float.value
        THEN LET d2 == consume_digits(
                           next_position(d1.position),
                           Append(d1.number, current_char(d1.position)))
             IN  parse_float(ts, d2.position, d2.number)
        ELSE parse_int(ts, d1.position, d1.number)

RECURSIVE process_identifier(_, _, _)
process_identifier(ts, pos, identifier) ==
    LET c == current_char(pos)
    IN  IF c # None /\ is_valid_id_char(c)
        THEN process_identifier(ts, next_position(pos), Append(identifier, c))
        ELSE IF \E k \in KEYWORDS : k.text = identifier
        THEN create_token((CHOOSE k \in KEYWORDS : k.text = identifier).type,
                          <<>>, <<>>, <<>>, ts, pos)
        ELSE create_token("Identifier", identifier, <<>>, <<>>, ts, pos)

---------------------------------------------------------------------------
(* Scanner::next_token, entered with the cursor at pos0.                   *)

\* the arm of the match on the leading character
Arm(c) ==
    IF c = None THEN "critical"
    ELSE IF \E t \in SingleCharTokens : t.char = c THEN "single"
    ELSE IF c = "/" THEN "slash"
    ELSE IF \E t \in OperatorTokens : t.char = c THEN "operator"
    ELSE IF c \in Whitespace THEN "whitespace"
    ELSE IF c = "\"" THEN "string"
    ELSE IF is_digit(c) THEN "number"
    ELSE IF is_valid_id_start(c) THEN "identifier"
    ELSE "unexpected"

\* mutant: the '*' of the opener is left to the multiline sub-scan
slash_arm_star_kept(ts, pos) ==
    LET x == current_char(pos)
    IN  IF x = None THEN create_token("Slash", <<>>, <<>>, <<>>, ts, pos)
        ELSE IF x = "/" THEN no_token(process_comment(pos))
        ELSE IF x = "*" THEN process_multiline_comment(ts, pos)
        ELSE create_token("Slash", <<>>, <<>>, <<>>, ts, pos)

\* the '/' arm: a line comment, a multiline comment or the Slash token
slash_arm(ts, pos) ==
    LET x == current_char(pos)
    IN  IF x = None THEN create_token("Slash", <<>>, <<>>, <<>>, ts, pos)
        ELSE IF x = "/" THEN no_token(process_comment(pos))
        ELSE IF x = "*" THEN process_multiline_comment(ts, next_position(pos))
        ELSE create_token("Slash", <<>>, <<>>, <<>>, ts, pos)

\* the '!', '=', '>', '<' arms
operator_arm(ts, pos, c) ==
    LET t == CHOOSE o \in OperatorTokens : o.char = c
        m == matches(pos, "=")
    IN  IF m.matched
        THEN create_token(t.two, <<>>, <<>>, <<>>, ts, m.position)
        ELSE create_token(t.one, <<>>, <<>>, <<>>, ts, m.position)

next_token(pos0) ==
    LET ts == pos0
        c == current_char(pos0)
        pos == next_position(pos0)
        arm == Arm(c)
    IN  CASE arm = "critical" ->
                [position |-> pos, token |-> <<>>, diag |-> <<>>,
                 fault |-> "none", critical |-> TRUE, revert |-> <<>>]
          [] arm = "single" ->
                create_token((CHOOSE t \in SingleCharTokens : t.char = c).type,
                             <<>>, <<>>, <<>>, ts, pos)
          [] arm = "slash" -> slash_arm(ts, pos)
          [] arm = "operator" -> operator_arm(ts, pos, c)
          [] arm = "whitespace" -> no_token(pos)
          [] arm = "string" -> process_string(ts, pos, <<>>)
          [] arm = "number" -> process_number(ts, pos, c)
          [] arm = "identifier" -> process_identifier(ts, pos, <<c>>)
          [] OTHER -> process_error("Unexpected character", <<c>>, ts, pos)

---------------------------------------------------------------------------
(* Scanner::scan.                                                          *)

NoReturn == [kind |-> "None", tokens |-> <<>>, message |-> ""]

\* mutant: the failure result carries the tokens
scan_return_keeps_tokens(he, res) ==
    IF he
    THEN [kind |-> "Err", tokens |-> res, message |-> "Error scanning file."]
    ELSE [kind |-> "Ok", tokens |-> res, message |-> ""]

\* match self.had_error { true => Err(..), false => Ok(result) }
scan_return(he, res) ==
    IF he
    THEN [kind |-> "Err", tokens |-> <<>>, message |-> "Error scanning file."]
    ELSE [kind |-> "Ok", tokens |-> res, message |-> ""]

NoPass == [result |-> <<>>, returned |-> NoReturn, reported |-> <<>>]

\* ErrorHandler::new(code) and Scanner::new(input, error_handler), for every
\* input of the bounds
Init ==
    /\ text \in Texts
    /\ position = 0
    /\ token_start = 0
    /\ had_error = FALSE
    /\ result = <<>>
    /\ reported = <<>>
    /\ log = <<>>
    /\ eh_had_error = FALSE
    /\ second = FALSE
    /\ first = NoPass
    /\ returned = NoReturn
    /\ branch = "none"
    /\ reverts = <<>>
    /\ fault = "none"
    /\ pc = "new"

\* mutant: scan starts without resetting the error flag and the cursor
scan_reset_missing(he, pos) == [had_error |-> he, position |-> pos]

\* self.had_error = false; self.char_stream.reset()
scan_reset(he, pos) == [had_error |-> FALSE, position |-> 0]

\* the head of scan: result = vec![], had_error = false, char_stream.reset().
\* It is taken when scan is called on the new Scanner, and once more when
\* scan is called again on the Scanner after it returned.
ScanBegin ==
    /\ pc = "new" \/ (pc \in {"ok", "err"} /\ ~second)
    /\ second' = (pc # "new")
    /\ result' = <<>>
    /\ had_error' = scan_reset(had_error, position).had_error
    /\ position' = scan_reset(had_error, position).position
    /\ reported' = <<>>
    /\ returned' = NoReturn
    /\ branch' = "none"
    /\ reverts' = <<>>
    /\ pc' = "scanning"
    /\ UNCHANGED <<text, token_start, log, eh_had_error, first, fault>>

\* one iteration of the loop of scan: next_token()?, then push the token
NextToken ==
    /\ pc = "scanning"
    /\ ~is_exhausted(position)
    /\ LET out == next_token(position)
       IN  /\ token_start' = position
           /\ position' = out.position
           /\ branch' = Arm(current_char(position))
           /\ result' = result \o out.token
           /\ reported' = reported \o out.diag
           /\ log' = log \o rendered(out.diag)
           /\ eh_had_error' = had_error_after(eh_had_error, Len(out.diag))
           /\ had_error' = (had_error \/ out.diag # <<>>)
           /\ reverts' = reverts \o out.revert
           /\ fault' = out.fault
           /\ pc' = IF out.fault # "none" THEN "panicked"
                    ELSE IF out.critical THEN "critical"
                    ELSE "scanning"
           /\ returned' =
                IF out.fault = "none" /\ out.critical
                THEN [kind |-> "Err", tokens |-> <<>>,
                      message |-> "Critical: Scanner could not read next character"]
                ELSE returned
    /\ UNCHANGED <<text, second, first>>

\* the tail of scan: push EOF at the cursor position, return by had_error
ScanFinish ==
    /\ pc = "scanning"
    /\ is_exhausted(position)
    /\ result' = Append(result, Token("EOF", <<>>, <<>>, <<>>, position, 0))
    /\ returned' = scan_return(had_error, result')
    /\ pc' = IF had_error THEN "err" ELSE "ok"
    /\ first' = IF second THEN first
                ELSE [result |-> result', returned |-> returned',
                      reported |-> reported]
    /\ UNCHANGED <<text, position, token_start, had_error, reported, log,
                   eh_had_error, second, branch, reverts, fault>>

Next == ScanBegin \/ NextToken \/ ScanFinish

Spec == Init /\ [][Next]_vars

---------------------------------------------------------------------------
(* ErrorHandler on its own: report_error called with arbitrary spans.      *)

\* longest source text handed to ErrorHandler::new
MaxCodeLen == 4
\* most report_error calls on one ErrorHandler
MaxReports == 2

CodeAlphabet == {"a", "\n"}

Codes == SeqsUpTo(CodeAlphabet, MaxCodeLen)

\* ErrorHandler::new(code), for every source text of the bounds
InitReport ==
    /\ text \in Codes
    /\ position = 0
    /\ token_start = 0
    /\ had_error = FALSE
    /\ result = <<>>
    /\ reported = <<>>
    /\ log = <<>>
    /\ eh_had_error = FALSE
    /\ second = FALSE
    /\ first = NoPass
    /\ returned = NoReturn
    /\ branch = "none"
    /\ reverts = <<>>
    /\ fault = "none"
    /\ pc = "reporter"

\* report_error(error_msg, line_information): the assertion, then the
\* message is rendered and logged.  The span is a pair of usize values
\* drawn from `offsets` and `lengths`; at most `calls` calls are made.
ReportErrorOn(offsets, lengths, calls) ==
    /\ pc = "reporter"
    /\ Len(reported) < calls
    /\ \E offset \in offsets, length \in lengths :
        LET li == [offset |-> offset, length |-> length]
            diag == [message |-> "An error occurred.", arg |-> <<>>,
                     offset |-> offset, length |-> length]
        IN  /\ reported' = Append(reported, diag)
            /\ IF report_error_panics(li)
               THEN /\ pc' = "panicked"
                    /\ fault' = "report_error"
                    /\ UNCHANGED <<log, eh_had_error>>
               ELSE /\ log' = log \o rendered(<<diag>>)
                    /\ eh_had_error' = report_error_had_error(eh_had_error)
                    /\ UNCHANGED <<pc, fault>>
    /\ UNCHANGED <<text, position, token_start, had_error, result, second,
                   first, returned, branch, reverts>>

\* report_error with any span up to one beyond the length of the text
ReportError ==
    ReportErrorOn(0..(Len(text) + 1), 0..(Len(text) + 1), MaxReports)

NextReport == ReportError

SpecReport == InitReport /\ [][NextReport]_vars

---------------------------------------------------------------------------
(* ErrorHandler on source texts of many lines.                             *)

\* most newlines in a source text of many lines
MaxLines == 100
\* most report_error calls on one such ErrorHandler
MaxLineReports == 1

\* the numbers of newlines: around one, two and three digit line numbers
LineCounts ==
    {n \in 0..MaxLines : n <= 1 \/ (n >= 8 /\ n <= 10) \/ n >= MaxLines - 2}

\* n empty lines and a last line "a"
LineCodes == {Repeat("\n", n) \o <<"a">> : n \in LineCounts}

\* ErrorHandler::new(code), for every source text of many lines
InitLines ==
    /\ text \in LineCodes
    /\ position = 0
    /\ token_start = 0
    /\ had_error = FALSE
    /\ result = <<>>
    /\ reported = <<>>
    /\ log = <<>>
    /\ eh_had_error = FALSE
    /\ second = FALSE
    /\ first = NoPass
    /\ returned = NoReturn
    /\ branch = "none"
    /\ reverts = <<>>
    /\ fault = "none"
    /\ pc = "reporter"

\* report_error with a span of length 0 or 1 anywhere in the text
ReportLine == ReportErrorOn(0..(Len(text) + 1), 0..1, MaxLineReports)

NextLines == ReportLine

SpecLines == InitLines /\ [][NextLines]_vars

---------------------------------------------------------------------------
(* Vocabulary of the properties.                                           *)

\* the pass is over: scan returned, or it was aborted by a panic
Done == pc \in {"ok", "err", "critical", "panicked"}

\* the tokens pushed so far, without the EOF marker
Emitted == SelectSeq(result, LAMBDA t : t.type # "EOF")

LastEmitted == Emitted[Len(Emitted)]

\* the character at byte position p
CharAt(p) == text[p + 1]

IsDigitChar(c) == c \in {"0", "1", "2", "3", "4", "5", "6", "7", "8", "9"}

IsIdChar(c) == c \in LowerCase \cup UpperCase \cup {"_"} \/ IsDigitChar(c)

\* the end (exclusive) of the maximal run of digits that starts at byte
\* position p
DigitRunEnd(p) ==
    CHOOSE q \in p..Len(text) :
        /\ \A i \in p..(q - 1) : IsDigitChar(CharAt(i))
        /\ q = Len(text) \/ ~IsDigitChar(CharAt(q))

\* the end (exclusive) of the maximal run of letters, digits and underscores
\* that starts at byte position p
IdRunEnd(p) ==
    CHOOSE q \in p..Len(text) :
        /\ \A i \in p..(q - 1) : IsIdChar(CharAt(i))
        /\ q = Len(text) \/ ~IsIdChar(CharAt(q))

\* a character that starts no token and is not whitespace
StartsNothing(c) ==
    /\ c \notin {"(", ")", "{", "}", ":", ",", ".", "-", "+", ";", "*", "/",
                 "!", "=", ">", "<", "\"", " ", "\r", "\t", "\n"}
    /\ ~IsIdChar(c)

\* the first byte position at or after p where the two characters a, b
\* follow each other; Len(text) if there is none
FirstPair(p, a, b) ==
    LET hits == {k \in p..(Len(text) - 2) : CharAt(k) = a /\ CharAt(k + 1) = b}
    IN  IF hits = {} THEN Len(text)
        ELSE CHOOSE k \in hits : \A j \in hits : k <= j

\* the first newline at or after p; Len(text) if there is none
FirstNewline(p) ==
    LET hits == {k \in p..(Len(text) - 1) : CharAt(k) = "\n"}
    IN  IF hits = {} THEN Len(text)
        ELSE CHOOSE k \in hits : \A j \in hits : k <= j

\* the first '"' at or after p; Len(text) if there is none
FirstQuote(p) ==
    LET hits == {k \in p..(Len(text) - 1) : CharAt(k) = "\""}
    IN  IF hits = {} THEN Len(text)
        ELSE CHOOSE k \in hits : \A j \in hits : k <= j

\* the digit run from p to q (exclusive) is more than i64::MAX
ExceedsI64(p, q) ==
    DigitsLess(I64MaxDigits,
               StripLeadingZeros(DigitValues(SubSeq(text, p + 1, q))))

Region(message, p, q) == [message |-> message, offset |-> p, length |-> q - p]

\* The erroneous regions of the text from byte position p on, in order, read
\* off the text by the lexical grammar: a character that starts nothing, a
\* string or a multiline comment that is never closed (through the end of
\* the text), a digit run that is no fraction and exceeds i64::MAX.
RECURSIVE ErroneousRegions(_)
ErroneousRegions(p) ==
    IF p >= Len(text) THEN <<>>
    ELSE
        LET c == CharAt(p)
            n == IF p + 1 < Len(text) THEN CharAt(p + 1) ELSE "end"
            quote == FirstQuote(p + 1)
            close == FirstPair(p + 2, "*", "/")
            run == DigitRunEnd(p)
            is_float == /\ run + 1 < Len(text)
                        /\ CharAt(run) = "."
                        /\ IsDigitChar(CharAt(run + 1))
        IN  IF StartsNothing(c)
            THEN <<Region("Unexpected character", p, p + 1)>>
                     \o ErroneousRegions(p + 1)
            ELSE IF c = "\""
            THEN IF quote = Len(text)
                 THEN <<Region("Unterminated string.", p, Len(text))>>
                 ELSE ErroneousRegions(quote + 1)
            ELSE IF c = "/" /\ n = "/"
            THEN ErroneousRegions(FirstNewline(p + 2) + 1)
            ELSE IF c = "/" /\ n = "*"
            THEN IF close = Len(text)
                 THEN <<Region("Unterminated multiline comment.", p, Len(text))>>
                 ELSE ErroneousRegions(close + 2)
            ELSE IF IsDigitChar(c)
            THEN IF is_float THEN ErroneousRegions(DigitRunEnd(run + 1))
                 ELSE IF ExceedsI64(p, run)
                 THEN <<Region("Cannot parse integer", p, run)>>
                          \o ErroneousRegions(run)
                 ELSE ErroneousRegions(run)
            ELSE IF IsIdChar(c) THEN ErroneousRegions(IdRunEnd(p))
            ELSE IF c \in {"!", "=", ">", "<"} /\ n = "="
            THEN ErroneousRegions(p + 2)
            ELSE ErroneousRegions(p + 1)

\* byte position i lies in an erroneous region of the text
InRegion(i) ==
    \E k \in 1..Len(ErroneousRegions(0)) :
        LET r == ErroneousRegions(0)[k]
        IN  r.offset <= i /\ i < r.offset + r.length

\* byte position i lies under the span of a token pushed by scan
Collected(i) ==
    \E k \in 1..Len(Emitted) :
        Emitted[k].offset <= i /\ i < Emitted[k].offset + Emitted[k].length

\* byte position i lies in a comment that opens outside every pushed token
\* and every erroneous region
Skipped(i) ==
    \E s \in 0..i :
        /\ ~Collected(s) /\ ~InRegion(s)
        /\ s + 1 < Len(text)
        /\ CharAt(s) = "/"
        /\ \/ CharAt(s + 1) = "/" /\ i <= FirstNewline(s + 2)
           \/ CharAt(s + 1) = "*" /\ i <= FirstPair(s + 2, "*", "/") + 1

---------------------------------------------------------------------------
(* C1 - C10.                                                               *)

\* C1: while scan processes an input, no cursor operation reads the buffer
\* beyond its length: a lookahead that falls out of bounds yields None, it
\* does not fail (no pass is aborted by the slice of peek_n).
C1_NoReadBeyondBuffer == fault # "peek_n"

\* C2: for every input, once the pass is over the token sequence built by
\* scan ends with EOF and holds no other EOF.
C2_EofExactlyOnceAndLast ==
    Done =>
        /\ Len(result) > 0
        /\ result[Len(result)].type = "EOF"
        /\ \A i \in 1..(Len(result) - 1) : result[i].type # "EOF"

\* C3: every token span lies within the source (offset + length <= length of
\* the source), and the EOF token has length 0 and sits at the final offset
\* of the buffer.
C3_SpansWithinSource ==
    \A i \in 1..Len(result) :
        /\ result[i].offset + result[i].length <= Len(text)
        /\ result[i].type = "EOF" =>
               result[i].length = 0 /\ result[i].offset = Len(text)

\* C4: once the pass is over, scan has returned the failure result exactly
\* when at least one lexical error was reported, and with no reported error
\* it has returned the token sequence.
C4_FailureIffErrorReported ==
    Done =>
        /\ returned.kind = "Err" <=> reported # <<>>
        /\ reported = <<>> => returned.kind = "Ok" /\ returned.tokens = result

\* C5: once the pass is over, the diagnostics are, in order, exactly the
\* erroneous regions of the input, none dropped and none twice (so their
\* number is the number of erroneous regions and the scan did not stop at
\* the first); the diagnostic of a character that starts nothing is an
\* "Unexpected character" with that character, spanning it alone; and no
\* token was pushed for any part of an erroneous region.
C5_EveryErrorReported ==
    Done =>
        /\ [i \in 1..Len(reported) |->
               Region(reported[i].message, reported[i].offset,
                      reported[i].offset + reported[i].length)]
               = ErroneousRegions(0)
        /\ \A i \in 1..Len(reported) :
               reported[i].message = "Unexpected character" =>
                   /\ reported[i].length = 1
                   /\ reported[i].arg = <<CharAt(reported[i].offset)>>
                   /\ StartsNothing(CharAt(reported[i].offset))
        /\ \A i \in 0..(Len(text) - 1) : InRegion(i) => ~Collected(i)

\* C6 as stated: when the pass reported an error, what scan hands back to its
\* caller holds the tokens that were found.
C6_TokensHandedBack ==
    pc = "err" =>
        \A i \in 1..Len(Emitted) :
            \E j \in 1..Len(returned.tokens) : returned.tokens[j] = Emitted[i]

\* C6 amended, the result: a pass that reported an error and is over either
\* returned the failure result, which carries the message and no token, or
\* was aborted by the slice of peek_n and returned nothing.
C6_NoTokenHandedBack ==
    (Done /\ reported # <<>>) =>
        \/ /\ pc = "err"
           /\ returned = [kind |-> "Err", tokens |-> <<>>,
                          message |-> "Error scanning file."]
        \/ /\ pc = "panicked"
           /\ fault = "peek_n"
           /\ returned = NoReturn

\* C6 amended, the recovery: when the pass returned the failure result,
\* every character of the input that is outside the erroneous regions and
\* is neither whitespace nor part of a comment lies under the span of a
\* token in scan's own vector, before and after the errors alike.
C6_TokensCollected ==
    pc = "err" =>
        \A i \in 0..(Len(text) - 1) :
            \/ Collected(i)
            \/ InRegion(i)
            \/ CharAt(i) \in {" ", "\r", "\t", "\n"}
            \/ Skipped(i)

\* C6 amended, per iteration: reporting an error does not stop the scan, and
\* the tokens in scan's own vector are kept.
C6_Step ==
    (pc = "scanning" /\ Len(reported') > Len(reported))
    => /\ pc' = "scanning"
       /\ result' = result

\* C6 amended: when a pass reports an error, the tokens found before and
\* after it are collected in scan's local vector, but scan hands back only
\* the failure result, which holds no token, or, aborted by the slice of
\* peek_n, nothing.
C6_TokensCollectedNotReturned ==
    [][C6_Step]_vars /\ [](C6_NoTokenHandedBack /\ C6_TokensCollected)

\* C6 witness: a failed pass with a token before and a token after the error.
C6_Witness ==
    /\ pc = "err"
    /\ Len(reported) = 1
    /\ \E i, j \in 1..Len(Emitted) :
           /\ Emitted[i].offset < reported[1].offset
           /\ Emitted[j].offset > reported[1].offset

\* C7: every iteration of the main loop moves the cursor forward by at least
\* one character and every sub-scan stops at or before the end of the buffer
\* (so the distance to the end strictly decreases and scan terminates).
C7_ProgressWithinBuffer ==
    branch # "none" => token_start < position /\ position <= Len(text)

\* C8: a number literal is the maximal digit run; followed by '.' and a digit
\* it extends over the '.' and the further maximal digit run and is one
\* FloatValue, otherwise it is exactly the digit run and one IntegerValue;
\* this holds wherever the run is placed, the end of the input included.
C8_NumberLiteral ==
    branch = "number" =>
        LET e1 == DigitRunEnd(token_start)
            is_float == /\ e1 + 1 < Len(text)
                        /\ CharAt(e1) = "."
                        /\ IsDigitChar(CharAt(e1 + 1))
            e2 == IF is_float THEN DigitRunEnd(e1 + 1) ELSE e1
        IN  /\ pc # "panicked"
            /\ Len(Emitted) > 0
            /\ LastEmitted.type = IF is_float THEN "FloatValue" ELSE "IntegerValue"
            /\ LastEmitted.offset = token_start
            /\ LastEmitted.length = e2 - token_start
            /\ position = e2

\* the token kind the claim expects for an operator character
ExpectedOperator(c, followed) ==
    CASE c = "!" -> IF followed THEN "BangEqual" ELSE "Bang"
      [] c = "=" -> IF followed THEN "EqualEqual" ELSE "Equal"
      [] c = ">" -> IF followed THEN "GreaterEqual" ELSE "Greater"
      [] c = "<" -> IF followed THEN "LessEqual" ELSE "Less"

\* C9: for '!', '=', '>', '<': followed by '=' both characters are consumed
\* and exactly one two-character token is emitted; otherwise exactly one
\* one-character token is emitted and the next character is not consumed.
C9_TwoCharacterOperators ==
    branch = "operator" =>
        LET c == CharAt(token_start)
            followed == token_start + 1 < Len(text)
                        /\ CharAt(token_start + 1) = "="
            width == IF followed THEN 2 ELSE 1
        IN  /\ Len(Emitted) > 0
            /\ LastEmitted.type = ExpectedOperator(c, followed)
            /\ LastEmitted.offset = token_start
            /\ LastEmitted.length = width
            /\ position = token_start + width
            /\ Cardinality({i \in 1..Len(Emitted) :
                               Emitted[i].offset >= token_start}) = 1

\* C9 witness: a two-character operator was emitted as one token.
C9_Witness ==
    /\ branch = "operator"
    /\ pc = "scanning"
    /\ Len(Emitted) > 0
    /\ LastEmitted.type \in {"BangEqual", "EqualEqual", "GreaterEqual", "LessEqual"}
    /\ position = token_start + 2

\* C10: an identifier/keyword scan consumes the maximal run of letters,
\* digits and underscores; it emits the keyword token when the whole run is a
\* keyword-table entry and otherwise Identifier carrying the run's text.
C10_IdentifierOrKeyword ==
    branch = "identifier" =>
        LET e == IdRunEnd(token_start)
            run == SubSeq(text, token_start + 1, e)
        IN  /\ Len(Emitted) > 0
            /\ LastEmitted.offset = token_start
            /\ LastEmitted.length = e - token_start
            /\ position = e
            /\ IF run = <<"o", "r">>
               THEN LastEmitted.type = "Or" /\ LastEmitted.chars = <<>>
               ELSE IF \E k \in KEYWORDS : k.text = run
               THEN LastEmitted.type = (CHOOSE k \in KEYWORDS : k.text = run).type
               ELSE LastEmitted.type = "Identifier" /\ LastEmitted.chars = run

\* C10 witness: a run with a keyword as a proper prefix was emitted as one
\* Identifier.
C10_Witness ==
    /\ branch = "identifier"
    /\ Len(Emitted) > 0
    /\ LastEmitted.type = "Identifier"
    /\ Len(LastEmitted.chars) = 3
    /\ SubSeq(LastEmitted.chars, 1, 2) = <<"o", "r">>

---------------------------------------------------------------------------
(* C11 - C20.                                                              *)

\* the indices of the tokens emitted, and of the diagnostics reported, at or
\* after byte position p
EmittedFrom(p) == {i \in 1..Len(Emitted) : Emitted[i].offset >= p}
ReportedFrom(p) == {i \in 1..Len(reported) : reported[i].offset >= p}

\* C11: an opening quote that is never closed gives exactly one
\* "Unterminated string." diagnostic spanning from the quote to the end of
\* the buffer, no token, the cursor exactly at the end of the buffer, and
\* the failure result.
C11_UnterminatedString ==
    (/\ branch = "string"
     /\ \A i \in (token_start + 1)..(Len(text) - 1) : CharAt(i) # "\"")
    => /\ pc \in {"scanning", "err"}
       /\ had_error
       /\ position = Len(text)
       /\ ReportedFrom(token_start) = {Len(reported)}
       /\ reported[Len(reported)] =
              [message |-> "Unterminated string.", arg |-> <<>>,
               offset |-> token_start, length |-> Len(text) - token_start]
       /\ EmittedFrom(token_start) = {}
       /\ pc = "err" => returned.kind = "Err"

\* C11 witness: a failed pass that ended in an unterminated string after a
\* token.
C11_Witness ==
    /\ pc = "err"
    /\ branch = "string"
    /\ Len(Emitted) = 1
    /\ Len(reported) = 1
    /\ reported[1].message = "Unterminated string."
    /\ reported[1].offset > 0

\* C12: after a leading '/': before '/' everything through the end of the
\* line (or of the input) is discarded without a token; before '*'
\* everything through the first following "*/" is discarded without a token,
\* and the opener's '*' does not close it; otherwise exactly one Slash is
\* emitted, also when '/' is the last character.
C12_SlashArm ==
    branch = "slash" =>
        LET ts == token_start
            x == IF ts + 1 < Len(text) THEN CharAt(ts + 1) ELSE "end"
        IN  CASE x = "/" ->
                   /\ EmittedFrom(ts) = {} /\ ReportedFrom(ts) = {}
                   /\ IF FirstNewline(ts + 2) < Len(text)
                      THEN position = FirstNewline(ts + 2) + 1
                      ELSE position >= Len(text)
              [] x = "*" ->
                   /\ EmittedFrom(ts) = {}
                   /\ IF FirstPair(ts + 2, "*", "/") < Len(text)
                      THEN /\ position = FirstPair(ts + 2, "*", "/") + 2
                           /\ ReportedFrom(ts) = {}
                      ELSE /\ ReportedFrom(ts) # {}
                           /\ reported[Len(reported)].message
                                  = "Unterminated multiline comment."
              [] OTHER ->
                   /\ EmittedFrom(ts) = {Len(Emitted)}
                   /\ LastEmitted.type = "Slash"
                   /\ LastEmitted.offset = ts
                   /\ LastEmitted.length = 1
                   /\ position = ts + 1
                   /\ ReportedFrom(ts) = {}

\* C12 witness: a multiline comment closed by the first "*/" was discarded
\* and the scan goes on behind it.
C12_Witness ==
    /\ branch = "slash"
    /\ pc = "scanning"
    /\ token_start + 1 < Len(text)
    /\ CharAt(token_start + 1) = "*"
    /\ reported = <<>>
    /\ position = token_start + 4
    /\ position < Len(text)

\* the tokens scan handed back, without the EOF marker
ReturnedTokens == SelectSeq(returned.tokens, LAMBDA t : t.type # "EOF")

\* byte position i lies under the span of a returned token
UnderSpan(i) ==
    \E k \in 1..Len(ReturnedTokens) :
        /\ ReturnedTokens[k].offset <= i
        /\ i < ReturnedTokens[k].offset + ReturnedTokens[k].length

\* byte position i lies in a comment: one that opens outside every span at
\* s <= i with "//" and runs to the end of the line, or with "/*" and runs
\* through the first following "*/"
InComment(i) ==
    \E s \in 0..i :
        /\ ~UnderSpan(s)
        /\ s + 1 < Len(text)
        /\ CharAt(s) = "/"
        /\ \/ CharAt(s + 1) = "/" /\ i <= FirstNewline(s + 2)
           \/ CharAt(s + 1) = "*" /\ i <= FirstPair(s + 2, "*", "/") + 1

\* C13: for every input with zero lexical errors scan returns tokens whose
\* spans are non-empty, lie in the text, strictly increase and do not
\* overlap, and every character under no span is whitespace or part of a
\* comment (so the texts under the spans, concatenated, are the input
\* without whitespace and comments).
C13_SpansReconstructInput ==
    (Done /\ reported = <<>>) =>
        /\ returned.kind = "Ok"
        /\ \A k \in 1..Len(ReturnedTokens) :
               /\ ReturnedTokens[k].length > 0
               /\ ReturnedTokens[k].offset + ReturnedTokens[k].length <= Len(text)
        /\ \A k \in 1..(Len(ReturnedTokens) - 1) :
               ReturnedTokens[k].offset + ReturnedTokens[k].length
                   <= ReturnedTokens[k + 1].offset
        /\ \A i \in 0..(Len(text) - 1) :
               UnderSpan(i) \/ CharAt(i) \in {" ", "\r", "\t", "\n"} \/ InComment(i)

\* C20: a "/*" that is never followed by "*/" leaves the cursor exactly at
\* the end of the buffer, gives exactly one "Unterminated multiline comment."
\* diagnostic spanning from the opening '/' to the end of the buffer, no
\* token, and the failure result.
C20_UnterminatedComment ==
    (/\ branch = "slash"
     /\ token_start + 1 < Len(text)
     /\ CharAt(token_start + 1) = "*"
     /\ FirstPair(token_start + 2, "*", "/") = Len(text))
    => /\ pc \in {"scanning", "err"}
       /\ had_error
       /\ position = Len(text)
       /\ ReportedFrom(token_start) = {Len(reported)}
       /\ reported[Len(reported)] =
              [message |-> "Unterminated multiline comment.", arg |-> <<>>,
               offset |-> token_start, length |-> Len(text) - token_start]
       /\ EmittedFrom(token_start) = {}
       /\ pc = "err" => returned.kind = "Err"

\* C20 witness: "/*/" at the end of the input was reported as unterminated
\* and the pass failed.
C20_Witness ==
    /\ pc = "err"
    /\ branch = "slash"
    /\ Len(text) = token_start + 3
    /\ CharAt(token_start + 1) = "*"
    /\ CharAt(token_start + 2) = "/"
    /\ reported[Len(reported)].message = "Unterminated multiline comment."
    /\ position = Len(text)

---------------------------------------------------------------------------
(* The diagnostics of report_error (C14, C15, C16, C18, under SpecReport). *)

Newlines == {p \in 0..(Len(text) - 1) : CharAt(p) = "\n"}

\* the byte position of the k-th newline of the text
NewlineAt(k) ==
    CHOOSE p \in Newlines : Cardinality({j \in Newlines : j < p}) = k - 1

\* the 1-based line number of a byte offset: the newlines strictly before
\* it, plus one
ExpectedLine(offset) == Cardinality({j \in Newlines : j < offset}) + 1

\* the text of line n, without its newline
LineText(n) ==
    LET start == IF n = 1 THEN 0 ELSE NewlineAt(n - 1) + 1
        stop == IF n <= Cardinality(Newlines) THEN NewlineAt(n) ELSE Len(text)
    IN  SubSeq(text, start + 1, stop)

\* C14: every rendered diagnostic names the line whose number is the count
\* of newlines strictly before span.offset, plus one, and quotes the text of
\* the line with that number (also for an offset that lands on a newline).
C14_LineNumberAndText ==
    \A i \in 1..Len(log) :
        LET n == ExpectedLine(reported[i].offset)
        IN  log[i][3] = <<" ">> \o Decimal(n) \o <<" ", "|", " ">> \o LineText(n)

\* C15: in every rendered diagnostic the carets number min(span.length,
\* characters from span.offset to the end of its line), they start at column
\* span.offset minus the start of the line, and the continuation notice is
\* there exactly when span.length exceeds the characters left on the line.
C15_MarkerLine ==
    \A i \in 1..Len(log) :
        LET offset == reported[i].offset
            length == reported[i].length
            before == {j \in Newlines : j < offset}
            start == IF before = {} THEN 0
                     ELSE (CHOOSE j \in before : \A k \in before : k <= j) + 1
            left == FirstNewline(offset) - offset
            carets == IF length <= left THEN length ELSE left
            gutter == SubSeq(log[i][2], 1, Len(log[i][2]) - 1)
        IN  /\ log[i][4] = gutter \o <<"|", " ">>
                               \o [k \in 1..(offset - start) |-> " "]
                               \o [k \in 1..carets |-> "^"]
            /\ Len(log[i]) = IF length > left THEN 5 ELSE 4
            /\ Len(log[i]) = 5 =>
                   log[i][5] = gutter \o <<"|", " ", "--> Error continues in next line.">>

\* C15 witness: a rendered diagnostic whose carets were cut at the end of the
\* line and that carries the notice.
C15_Witness ==
    \E i \in 1..Len(log) :
        /\ Len(log[i]) = 5
        /\ log[i][4][Len(log[i][4])] = "^"
        /\ reported[i].offset > 0

\* C16: report renders without failing for every span with offset + length
\* <= length of the source, the span at the very end (offset = length of the
\* source, length 0) included.
C16_RendersEveryValidSpan ==
    (\A i \in 1..Len(reported) :
         reported[i].offset + reported[i].length <= Len(text))
    => pc # "panicked" /\ Len(log) = Len(reported)

\* C18, per call: report_error leaves the stored source text and had_error
\* as they are.
C18_Step == text' = text /\ eh_had_error' = eh_had_error

\* C18, per state: had_error is still false, and the same span is rendered
\* the same way whatever was reported before it.
C18_State ==
    /\ eh_had_error = FALSE
    /\ \A i, j \in 1..Len(log) : reported[i] = reported[j] => log[i] = log[j]

\* C18: reporting never changes the reporter's state.
C18_ReporterUnchanged == [][C18_Step]_vars /\ []C18_State

\* C18 witness: two diagnostics were rendered by one ErrorHandler, the later
\* one for an earlier place in the text.
C18_Witness ==
    /\ pc = "reporter"
    /\ Len(log) = 2
    /\ reported[2].offset < reported[1].offset

---------------------------------------------------------------------------
(* C17 and C19, under Spec.                                                *)

\* C17: when scan is run again on the same input, the second pass builds the
\* same token sequence, returns the same result and reports the same
\* diagnostics, rendered the same way, as the first.
C17_SecondPassAgrees ==
    (second /\ pc \in {"ok", "err"}) =>
        /\ result = first.result
        /\ returned = first.returned
        /\ reported = first.reported
        /\ Len(log) = 2 * Len(reported)
        /\ \A i \in 1..Len(reported) : log[i] = log[Len(reported) + i]

\* C17 witness: a second pass ended that emitted a token and reported an
\* error.
C17_Witness ==
    /\ second
    /\ pc = "err"
    /\ Len(Emitted) > 0
    /\ Len(reported) > 0

\* the keyword variants of TokenType
KeywordTokenTypes ==
    {"And", "Bool", "Class", "Else", "False", "Float", "Fun", "For", "If",
     "Int", "Nil", "Or", "Print", "Return", "String", "Super", "This", "True",
     "Val", "Var", "While"}

\* the keyword table is a closed set of n words, each lowercase, each mapped
\* to a keyword kind of its own, every keyword kind has exactly one entry,
\* and every keyword token collected so far spans the word of its kind
KeywordTableOf(n) ==
    /\ Cardinality(KEYWORDS) = n
    /\ Cardinality({k.text : k \in KEYWORDS}) = n
    /\ \A k \in KEYWORDS :
           /\ Len(k.text) > 0
           /\ \A i \in 1..Len(k.text) : k.text[i] \in LowerCase
           /\ k.type \in KeywordTokenTypes
    /\ \A ty \in KeywordTokenTypes :
           Cardinality({k \in KEYWORDS : k.type = ty}) = 1
    /\ \A i \in 1..Len(result) :
           result[i].type \in KeywordTokenTypes =>
               \E k \in KEYWORDS :
                   /\ k.type = result[i].type
                   /\ k.text = SubSeq(text, result[i].offset + 1,
                                      result[i].offset + result[i].length)

\* C19 as stated: the keyword table holds exactly 19 reserved words.
C19_NineteenKeywords == KeywordTableOf(19)

\* C19 amended: the keyword table holds exactly 21 reserved words, each an
\* exact lowercase text mapped to its own keyword kind, and every keyword
\* kind has exactly one entry.
C19_TwentyOneKeywords == KeywordTableOf(21)

\* C19 witness: a keyword token was emitted through the table.
C19_Witness ==
    /\ branch = "identifier"
    /\ pc = "scanning"
    /\ Len(Emitted) > 0
    /\ LastEmitted.type = "Or"
    /\ LastEmitted.length = 2

---------------------------------------------------------------------------
(* C21 - C25.                                                              *)

\* C21, per iteration: a token pushed by next_token starts where the cursor
\* stood before its leading character was consumed, which is the recorded
\* token_start, and ends at the cursor position at emission.
C21_Step ==
    (pc = "scanning" /\ pc' = "scanning" /\ Len(result') = Len(result) + 1) =>
        LET t == result'[Len(result')]
        IN  /\ t.type # "EOF"
            /\ t.offset = position
            /\ t.offset = token_start'
            /\ t.offset + t.length = position'

\* C21, per state: every non-EOF token has a non-empty span; the span of a
\* string literal starts and ends on a quote, is two longer than the
\* payload, and the payload is the text between the quotes, newlines
\* included.
C21_State ==
    \A i \in 1..Len(result) :
        LET t == result[i]
        IN  t.type # "EOF" =>
                /\ t.length > 0
                /\ t.type = "StringValue" =>
                       /\ t.length = Len(t.chars) + 2
                       /\ CharAt(t.offset) = "\""
                       /\ CharAt(t.offset + t.length - 1) = "\""
                       /\ t.chars = SubSeq(text, t.offset + 2,
                                           t.offset + t.length - 1)

\* C21: every non-EOF token emitted has the span [token_start, cursor
\* position at emission), which is non-empty, and a string literal's span
\* covers both quotes around a payload kept verbatim.
C21_TokenSpans == [][C21_Step]_vars /\ []C21_State

\* C21 witness: a string literal with a newline in it was emitted after
\* another token.
C21_Witness ==
    \E i \in 2..Len(result) :
        /\ result[i].type = "StringValue"
        /\ \E j \in 1..Len(result[i].chars) : result[i].chars[j] = "\n"

\* C22: in every pass revert is called only directly after a next() that
\* returned None at the end of the buffer: at most once in the pass (no
\* second revert without a next() between), never at position 0, and after
\* it the cursor is at the length of the buffer, where it stays.
C22_RevertOnlyAfterNone ==
    /\ Len(reverts) <= 1
    /\ \A i \in 1..Len(reverts) :
           /\ reverts[i].after_next = None
           /\ reverts[i].from > 0
           /\ reverts[i].from = Len(text) + 1
           /\ reverts[i].to = Len(text)
           /\ position = Len(text)

\* C22 witness: the pass called revert after it had emitted a token, in a
\* text of more than two characters.
C22_Witness ==
    /\ Len(reverts) = 1
    /\ Len(Emitted) > 0
    /\ Len(text) > 2

\* C23, per iteration: whenever next_token is entered the cursor is inside
\* the buffer, the dispatching next() yields a character, and the
\* iteration does not end in the critical error.
C23_Step ==
    (pc = "scanning" /\ position' # position) =>
        /\ position < Len(text)
        /\ current_char(position) # None
        /\ branch' # "critical"
        /\ pc' # "critical"

\* C23, per state: the critical error was not raised, and whenever scan has
\* returned, EndOfFile was appended last.
C23_State ==
    /\ pc # "critical"
    /\ returned # NoReturn =>
           /\ returned.message # "Critical: Scanner could not read next character"
           /\ Len(result) > 0
           /\ result[Len(result)].type = "EOF"

\* C23: the critical error of next_token is unreachable from scan: the
\* dispatching next() always yields a character and scan never returns
\* before it has appended EndOfFile.
C23_CriticalUnreachable == [][C23_Step]_vars /\ []C23_State

\* C23 witness: next_token was entered with the cursor on the last
\* character of the input, and scan then returned.
C23_Witness ==
    /\ pc \in {"ok", "err"}
    /\ branch # "none"
    /\ Len(text) > 1
    /\ token_start = Len(text) - 1

\* C24, per iteration: a diagnostic issued by the scanner spans from the
\* recorded token_start to the cursor position at the report, which is
\* inside the buffer or at its end.
C24_Step ==
    (pc = "scanning" /\ Len(reported') = Len(reported) + 1) =>
        LET d == reported'[Len(reported')]
        IN  /\ d.offset = token_start'
            /\ d.offset + d.length = position'
            /\ position' <= Len(text)

\* C24, per state: report_error never failed on a diagnostic of the
\* scanner; every diagnostic is of one of the four kinds, starts before the
\* end of the source and ends at or before it.
C24_State ==
    /\ fault # "report_error"
    /\ \A i \in 1..Len(reported) :
           /\ reported[i].message \in
                  {"Unexpected character", "Unterminated string.",
                   "Unterminated multiline comment.", "Cannot parse integer"}
           /\ reported[i].offset < Len(text)
           /\ reported[i].offset + reported[i].length <= Len(text)

\* C24: the assertion of report_error (source length >= offset + length)
\* holds for every diagnostic the scanner issues: its span starts at
\* token_start < len(source) and ends at a cursor position <= len(source).
C24_ScannerSpansPassAssertion == [][C24_Step]_vars /\ []C24_State

\* C24 witness: an unparseable number was reported, in an input that goes
\* on after it.
C24_Witness ==
    \E i \in 1..Len(reported) :
        /\ reported[i].message = "Cannot parse integer"
        /\ reported[i].length >= Len(I64MaxDigits)
        /\ reported[i].offset + reported[i].length < Len(text)

\* the column of the first '|' of a rendered line
BarColumn(l) == CHOOSE j \in 1..Len(l) : l[j] = "|" /\ \A k \in 1..(j - 1) : l[k] # "|"

\* C25: in every rendered diagnostic the '|' is at the same column in the
\* blank gutter line, the numbered line, the marker line and the
\* continuation line; before it the numbered line holds a space, the
\* decimal digits of the line number and a space, and the other lines hold
\* spaces only, so the gutter is the digit count plus two wide, whatever
\* the number of digits.
C25_GutterAligned ==
    \A i \in 1..Len(log) :
        LET m == log[i]
            b == BarColumn(m[2])
        IN  /\ b >= 4
            /\ \A k \in 2..Len(m) :
                   /\ \E j \in 1..Len(m[k]) : m[k][j] = "|"
                   /\ BarColumn(m[k]) = b
            /\ \A k \in {2} \cup (4..Len(m)) : \A j \in 1..(b - 1) : m[k][j] = " "
            /\ m[3][1] = " "
            /\ m[3][b - 1] = " "
            /\ \A j \in 2..(b - 2) : IsDigitChar(m[3][j])

\* C25 witness: a diagnostic with a three-digit line number and a
\* continuation line was rendered.
C25_Witness ==
    \E i \in 1..Len(log) :
        /\ Len(log[i]) = 5
        /\ BarColumn(log[i][3]) = 6

===========================================================================
